---- MODULE Spec2Model ----
(***************************************************************************)
(* Model of the repository-insight-tracker action (src/load.js): the       *)
(* dataset file kept on a branch of the storage repository, its load       *)
(* (getInsightsFile), the per-date upsert (generateFileContent), the       *)
(* 14-day backfill and the publish sequence (commitFileToBranch) driven by *)
(* run().                                                                  *)
(***************************************************************************)
EXTENDS Integers, Sequences, FiniteSets, TLC

\* ------------------------------------------------------------------ bounds

\* Runs of the action that are started one after the other.
MaxRuns == 2
\* Calendar days the clock may advance between runs.
MaxTicks == 1
\* Longest record sequence drawn as input of the upsert function.
MaxLen == 3

\* -------------------------------------------------------- program constants

\* `if (insightsCount < 14)`
MinEntries == 14
\* `let i = 14;`
BackfillStart == 14
\* `while (i != 1)`
BackfillStop == 1

\* ---------------------------------------------------------------- calendar

\* Date.prototype.toISOString().split("T")[0] of consecutive calendar days;
\* a day is counted by its index in this table.
IsoTable ==
  << "2024-01-13", "2024-01-14", "2024-01-15", "2024-01-16", "2024-01-17",
     "2024-01-18", "2024-01-19", "2024-01-20", "2024-01-21", "2024-01-22",
     "2024-01-23", "2024-01-24", "2024-01-25", "2024-01-26", "2024-01-27",
     "2024-01-28", "2024-01-29", "2024-01-30", "2024-01-31", "2024-02-01",
     "2024-02-02", "2024-02-03", "2024-02-04", "2024-02-05" >>

DateStringDayLate(today, i) == IsoTable[today - i + 1]

\* `today.setDate(today.getDate() - i); today.toISOString().split("T")[0]`
DateString(today, i) == IsoTable[today - i]

TwoDaysAgoDateString(today) == DateString(today, 2)

\* getYesterdayDateString()
getYesterdayDateString(today) == DateString(today, 1)

\* ------------------------------------------------------------------- text

\* const csvHeaders = [...]
csvHeaders ==
  << "date", "stargazers", "commits", "contributors", "traffic_views",
     "traffic_uniques", "clones_count", "clones_uniques" >>

\* A text is either the JSON text of a value ("json": an array with its
\* items, or another JSON value) or any other text, held as the lines that
\* split("\n") gives; a line is held as its comma separated fields, the
\* empty line as <<>> and a line of white space as <<" ">>.
JsonArrayText(items) == [syntax |-> "json", array |-> TRUE, items |-> items]
JsonObjectText == [syntax |-> "json", array |-> FALSE, items |-> <<>>]
LinesText(lines) == [syntax |-> "lines", array |-> FALSE, items |-> lines]
EmptyText == LinesText(<< <<>> >>)

\* JSON.parse(text): throws unless the text is JSON.
JsonParses(text) == text.syntax = "json"
JsonParse(text) == [array |-> text.array, items |-> text.items]

\* JSON.stringify(value, null, 2)
JsonStringify(value) ==
  [syntax |-> "json", array |-> value.array, items |-> value.items]

\* text.split("\n")
Split(text) ==
  IF text.syntax = "lines" THEN text.items
  ELSE IF text.array /\ Len(text.items) = 0 THEN << <<"[]">> >>
  ELSE << <<"[">>, <<"]">> >>

\* line.trim() !== ""
NotBlank(line) == ~(Len(line) = 0 \/ (Len(line) = 1 /\ line[1] = " "))

\* lines.filter((line) => line.trim() !== "")
FilterBlank(lines) == SelectSeq(lines, NotBlank)

\* lines.join("\n"): the empty array joins to the empty string.
Join(lines) == IF Len(lines) = 0 THEN EmptyText ELSE LinesText(lines)

\* `${csvHeaders.join(",")}\n`
HeaderOnlyText == LinesText(<< csvHeaders, <<>> >>)

StartsWithAnything(line, date) == Len(line) > 0

\* line.startsWith(date): dates are ten characters wide, so a date is a
\* prefix of a line exactly when it is the line's first field.
StartsWith(line, date) == Len(line) > 0 /\ line[1] = date

\* ------------------------------------------------------------------ upsert

\* array.findIndex(test), given the test's verdict on each element: the
\* first index passing the test, 0 for JS's -1.
FindIndex(passes) ==
  IF \E k \in 1..Len(passes) : passes[k]
  THEN CHOOSE k \in 1..Len(passes) :
         passes[k] /\ \A j \in 1..(k - 1) : ~passes[j]
  ELSE 0

\* const newEntry = {...}
NewEntry(date, stats, traffic, clones) ==
  [ date |-> date,
    stargazers |-> stats.stargazerCount,
    commits |-> stats.commitCount,
    contributors |-> stats.contributorsCount,
    traffic_views |-> traffic.count,
    traffic_uniques |-> traffic.uniques,
    clones_count |-> clones.count,
    clones_uniques |-> clones.uniques ]

\* csvHeaders.map((header) => newEntry[header]).join(",")
CsvLine(newEntry) == [k \in 1..Len(csvHeaders) |-> newEntry[csvHeaders[k]]]

UpsertAlwaysPush(arr, idx, item) == Append(arr, item)

UpsertReplaceAndPush(arr, idx, item) ==
  IF idx # 0 THEN Append([arr EXCEPT ![idx] = item], item)
  ELSE Append(arr, item)

\* `if (existingEntryIndex !== -1) { a[existingEntryIndex] = e } else { a.push(e) }`
ReplaceOrPush(arr, idx, item) ==
  IF idx # 0 THEN [arr EXCEPT ![idx] = item] ELSE Append(arr, item)

\* The json branch of generateFileContent; it throws when the file is not
\* JSON or is not an array (existingData.findIndex is not a function).
JsonUpsert(insightsFile, newEntry) ==
  IF ~JsonParses(insightsFile) \/ ~JsonParse(insightsFile).array
  THEN [ok |-> FALSE, content |-> insightsFile]
  ELSE LET existingData == JsonParse(insightsFile).items
           HasDate(entry) == entry.date = newEntry.date
           existingEntryIndex ==
             FindIndex([k \in 1..Len(existingData) |->
                          HasDate(existingData[k])])
       IN [ ok |-> TRUE,
            content |-> JsonStringify(
              [ array |-> TRUE,
                items |-> ReplaceOrPush(existingData, existingEntryIndex,
                                        newEntry) ]) ]

\* The csv branch of generateFileContent.
CsvUpsert(insightsFile, newEntry) ==
  LET csvLines == FilterBlank(Split(insightsFile))
      HasDate(line) == StartsWith(line, newEntry.date)
      existingEntryIndex ==
        FindIndex([k \in 1..Len(csvLines) |-> HasDate(csvLines[k])])
      csvLine == CsvLine(newEntry)
  IN [ ok |-> TRUE,
       content |-> Join(ReplaceOrPush(csvLines, existingEntryIndex, csvLine)) ]

\* `let fileContent;` left unassigned.
UndefinedText == LinesText(<< <<"undefined">> >>)

\* generateFileContent: the content returned, or ok = FALSE when it throws.
\* With a format that is neither json nor csv no branch runs and the
\* unassigned fileContent is returned.
generateFileContent(insightsFile, newEntry, format) ==
  IF format = "json" THEN JsonUpsert(insightsFile, newEntry)
  ELSE IF format = "csv" THEN CsvUpsert(insightsFile, newEntry)
  ELSE [ok |-> TRUE, content |-> UndefinedText]

\* ------------------------------------------------------------ metrics source

\* A value that is a number or JS's undefined.
Num(n) == [isNum |-> TRUE, n |-> n]
Undefined == [isNum |-> FALSE, n |-> 0]
LessOrEqual(a, k) == a.isNum /\ a.n <= k

\* `a < k`: false when a is undefined.
Less(a, k) == a.isNum /\ a.n < k

\* `|| { count: 0, uniques: 0 }`
NoTraffic == [count |-> 0, uniques |-> 0]

\* The per-day lists the traffic API answers with on day `today`: nothing
\* for a repository without traffic, else the three days before today (the
\* days the host still keeps), each with that day's counts. A timestamp is
\* held as its two halves around the "T".
QuietSource == [views |-> <<>>, clones |-> <<>>]
BusySource(today) ==
  [ views |-> [k \in 1..3 |->
                 [ timestamp |-> <<IsoTable[today - 4 + k], "00:00:00Z">>,
                   count |-> 4 + ((today + k) % 3), uniques |-> 2 ]],
    clones |-> [k \in 1..3 |->
                 [ timestamp |-> <<IsoTable[today - 4 + k], "00:00:00Z">>,
                   count |-> (today + k) % 3, uniques |-> 1 ]] ]
\* The tracked repository: "quiet" has no traffic, "busy" has; "still" has
\* no traffic and totals that do not change from one run to the next.
Worlds == {"quiet", "busy"}
SourceOf(world, today) ==
  IF world = "busy" THEN BusySource(today) ELSE QuietSource

\* `list.find((x) => x.timestamp.split("T")[0] === dateString) || {0, 0}`
FindByDate(list, dateString) ==
  LET OnDate(x) == x.timestamp[1] = dateString
      k == FindIndex([j \in 1..Len(list) |-> OnDate(list[j])])
  IN IF k = 0 THEN NoTraffic
     ELSE [count |-> list[k].count, uniques |-> list[k].uniques]

\* getYesterdayTraffic
getYesterdayTraffic(src, dateString) == FindByDate(src.views, dateString)

\* getYesterdayClones
getYesterdayClones(src, dateString) == FindByDate(src.clones, dateString)

\* The answers of the GraphQL query; a node's login is "" when author.user
\* is null.
RepoResponses ==
  { [stargazerCount |-> 7, totalCount |-> 3, logins |-> <<"ann", "", "bob">>],
    [stargazerCount |-> 9, totalCount |-> 4, logins |-> <<"ann", "ann">>] }

\* The answers the query may give in a world.
RepoResponsesOf(world) ==
  IF world = "still"
  THEN {[stargazerCount |-> 7, totalCount |-> 3, logins |-> <<"ann", "", "bob">>]}
  ELSE RepoResponses

\* getRepoStats
getRepoStats(response) ==
  [ stargazerCount |-> response.stargazerCount,
    commitCount |-> response.totalCount,
    contributorsCount |->
      Cardinality({response.logins[k] : k \in 1..Len(response.logins)}
                  \ {""}) ]

NoStats == [stargazerCount |-> 0, commitCount |-> 0, contributorsCount |-> 0]

\* -------------------------------------------------------------------- load

LoadRethrows(served, content, format) ==
  [ok |-> FALSE, insightsFile |-> UndefinedText, insightsCount |-> Undefined]

LoadAnyFormat(served, content, format) ==
  IF format = "csv"
  THEN [ok |-> TRUE, insightsFile |-> HeaderOnlyText, insightsCount |-> Num(0)]
  ELSE [ ok |-> TRUE, insightsFile |-> JsonStringify([array |-> TRUE, items |-> <<>>]),
         insightsCount |-> Num(0) ]

\* The catch block of getInsightsFile: the empty file of the format with a
\* count of 0, or the throw of "Unsupported format".
LoadFallback(served, content, format) ==
  IF format = "json"
  THEN [ ok |-> TRUE, insightsFile |-> JsonStringify([array |-> TRUE, items |-> <<>>]),
         insightsCount |-> Num(0) ]
  ELSE IF format = "csv"
  THEN [ok |-> TRUE, insightsFile |-> HeaderOnlyText, insightsCount |-> Num(0)]
  ELSE [ok |-> FALSE, insightsFile |-> UndefinedText, insightsCount |-> Undefined]

\* `JSON.parse(existingContent).length`
JsonLength(value) == IF value.array THEN Num(Len(value.items)) ELSE Undefined

LoadDecodeCountsHeader(content, format) ==
  IF format = "json"
  THEN IF JsonParses(content)
       THEN [ thrown |-> FALSE, insightsFile |-> content,
              insightsCount |-> JsonLength(JsonParse(content)) ]
       ELSE [thrown |-> TRUE, insightsFile |-> content, insightsCount |-> Undefined]
  ELSE IF format = "csv"
  THEN LET csvLines == FilterBlank(Split(content))
       IN [ thrown |-> FALSE, insightsFile |-> Join(csvLines),
            insightsCount |-> Num(Len(csvLines)) ]
  ELSE [thrown |-> TRUE, insightsFile |-> content, insightsCount |-> Undefined]

\* The try block of getInsightsFile on the decoded content of the file;
\* thrown = TRUE when it throws (JSON.parse, or the unsupported format).
LoadDecode(content, format) ==
  IF format = "json"
  THEN IF JsonParses(content)
       THEN [ thrown |-> FALSE, insightsFile |-> content,
              insightsCount |-> JsonLength(JsonParse(content)) ]
       ELSE [thrown |-> TRUE, insightsFile |-> content, insightsCount |-> Undefined]
  ELSE IF format = "csv"
  THEN LET csvLines == FilterBlank(Split(content))
       IN [ thrown |-> FALSE, insightsFile |-> Join(csvLines),
            insightsCount |-> Num(Len(csvLines) - 1) ]
  ELSE [thrown |-> TRUE, insightsFile |-> content, insightsCount |-> Undefined]

\* getInsightsFile: `served` tells whether getContent answered with the file
\* (`content`); when it threw (not found or any other error), or when the
\* decoding throws, the catch block runs.
getInsightsFile(served, content, format) ==
  IF served /\ ~LoadDecode(content, format).thrown
  THEN [ ok |-> TRUE,
         insightsFile |-> LoadDecode(content, format).insightsFile,
         insightsCount |-> LoadDecode(content, format).insightsCount ]
  ELSE LoadFallback(served, content, format)

\* ------------------------------------------------------------------- state

VARIABLES
  inputs,         \* the action's inputs: [format, directory]
  world,          \* the traffic of the tracked repository
  clock,          \* the calendar day `new Date()` reads
  ticks,          \* days the clock has advanced
  started,        \* runs started so far
  refs,           \* the refs of the storage repository: name -> commit
  pc,             \* per run: the await the run is at
  stats,          \* per run: the result of getRepoStats
  insightsFile,   \* per run
  insightsCount,  \* per run
  i,              \* per run: the backfill loop counter
  fetch,          \* per run: the metric fetches of Promise.all and their date
  fileContent,    \* per run
  publish,        \* per run: the locals of commitFileToBranch
  outputs,        \* per run: what core.setOutput has set
  failure,        \* per run: what core.setFailed was called for, "" if not
  calls,          \* per run: the remote calls issued, in order
  upserts,        \* per run: the upserts done, in order: [step, offset, date]
  loaded,         \* per run: what getContent did (outcome, the stored text),
                  \* what getInsightsFile returned (file, count) and the
                  \* commit the branch was at then (head)
  runDay,         \* per run: the calendar day on which the run started
  fn              \* the upsert function applied to drawn inputs

storeVars == <<refs>>
envVars == <<inputs, world, clock, ticks, started>>
runVars ==
  <<pc, stats, insightsFile, insightsCount, i, fetch, fileContent,
    publish, outputs, failure, calls, upserts, loaded, runDay>>
vars == <<envVars, storeVars, runVars, fn>>

\* The runs: "A" is the run of the sequential specification.
Runs == {"A", "B"}

\* `.toLowerCase()` of the formats the inputs are drawn from.
ToLowerCase(str) ==
  IF str = "CSV" THEN "csv" ELSE IF str = "JSON" THEN "json" ELSE str

\* `(core.getInput("format") || "json").toLowerCase()`
Format == ToLowerCase(IF inputs.format = "" THEN "json" ELSE inputs.format)

\* `core.getInput("directory") || ".insights"`
RootDir == IF inputs.directory = "" THEN ".insights" ELSE inputs.directory

\* `path.join(path.join(rootDir, owner, repo), "stats." + format)`
StatsPath(rootDir, format) == <<rootDir, "owner", "repo", "stats", format>>

\* The file path of getInsightsFile.
LoadPath == StatsPath(RootDir, Format)

\* The file path of commitFileToBranch.
CommitPath == StatsPath(RootDir, Format)

ReadmePath == <<"README.md">>

\* path.join of the older variant of the action (src/unnamed/part_000):
\* empty segments are dropped and a leading "./" is normalised away.
PathJoin(segments) ==
  LET Kept(seg) == seg # ""
      Normal(seg) == IF seg = "./data" THEN "data" ELSE seg
      kept == SelectSeq(segments, Kept)
  IN [k \in 1..Len(kept) |-> Normal(kept[k])]

\* The older variant reads the directory input in each function:
\* `core.getInput("directory")` in getInsightsFile and
\* `core.getInput("directory") || "./data"` in commitFileToBranch.
OlderLoadRootDir == inputs.directory
OlderCommitRootDir ==
  IF inputs.directory = "" THEN "./data" ELSE inputs.directory

\* The file paths of getInsightsFile and commitFileToBranch in the older
\* variant.
OlderLoadPath ==
  PathJoin(<<OlderLoadRootDir, "owner", "repo", "stats", Format>>)
OlderCommitPath ==
  PathJoin(<<OlderCommitRootDir, "owner", "repo", "stats", Format>>)

\* ------------------------------------------------------------ storage host

\* The objects of the storage repository are content addressed: the sha of
\* a blob stands for its text, the sha of a tree for its entries (path ->
\* blob) and the sha of a commit for its tree, parents, message and stamp.
\* An object that was created exists from then on under the same sha, so
\* the host's state is its refs.

\* `ref: "heads/main"` and `` `heads/${branch}` `` with the default branch
\* input.
MainRef == "heads/main"
BranchRef == "heads/repository-insights"

BranchNeverFound == FALSE

\* Whether getRef of the branch answers with the ref (else with 404).
BranchExists == BranchRef \in DOMAIN refs

\* git.getRef({ref}).data.object.sha of a ref that exists.
getRef(ref) == refs[ref]

\* git.getCommit({commit_sha}).data.tree.sha
getCommitTree(commitSha) == commitSha.tree

\* repos.getContent({path, ref: branch}): whether the file is there.
HasFile(path) == BranchExists /\ path \in DOMAIN getCommitTree(getRef(BranchRef))

\* The text of the file on the branch.
FileOnBranch(path) == getCommitTree(getRef(BranchRef))[path]

\* Base64 as the host sends it and Base64.decode.
Base64Encode(text) == [base64 |-> text]
Base64Decode(data) == data.base64

\* git.createBlob({content, encoding: "utf-8"}).data.sha
createBlob(content) == content

createTreeNoBase(baseTree, path, blobSha) == [p \in {path} |-> blobSha]

\* git.createTree({base_tree, tree: [{path, mode, type, sha}]}).data.sha
createTree(baseTree, path, blobSha) ==
  [p \in DOMAIN baseTree \cup {path} |->
     IF p = path THEN blobSha ELSE baseTree[p]]

\* git.createCommit({message, tree, parents}).data.sha; the stamp stands
\* for the committer and date the host adds.
createCommit(message, tree, parents, stamp) ==
  [tree |-> tree, parents |-> parents, message |-> message, stamp |-> stamp]

\* Whether commit `anc` is `sha` or is reached from it by parent links.
RECURSIVE IsAncestor(_, _)
IsAncestor(anc, sha) ==
  \/ anc = sha
  \/ \E k \in 1..Len(sha.parents) : IsAncestor(anc, sha.parents[k])

\* git.updateRef without force: only a fast-forward is accepted.
updateRefAccepted(newSha) ==
  BranchExists /\ IsAncestor(getRef(BranchRef), newSha)

\* git.createRef / git.updateRef: the refs with `ref` at `sha`.
SetRef(ref, sha) ==
  [n \in DOMAIN refs \cup {ref} |-> IF n = ref THEN sha ELSE refs[n]]

\* ----------------------------------------------------------- initial state

\* A record written by an earlier run for the day with this index.
OldEntry(day) ==
  NewEntry(IsoTable[day],
           [stargazerCount |-> 5, commitCount |-> 2, contributorsCount |-> 1],
           NoTraffic, [count |-> 1, uniques |-> 1])

\* The day of the first run: the day after the 15 days an older file covers.
FirstDay == BackfillStart + 2

\* Record sequences of files of earlier runs: a thin one with a day older
\* than the backfill window, one of the 13 days up to yesterday, and one of
\* the 14 days up to the day before yesterday.
ThinDays == <<1, 9, 14>>
NearDays == [k \in 1..(MinEntries - 1) |-> k + 2]
FullDays == [k \in 1..MinEntries |-> k]
EntriesOf(days) == [k \in 1..Len(days) |-> OldEntry(days[k])]
CsvRowsOf(days) == [k \in 1..Len(days) |-> CsvLine(OldEntry(days[k]))]

\* The texts the dataset file may hold before the first run.
InitialFiles(format) ==
  IF format = "json"
  THEN { JsonArrayText(<<>>), JsonArrayText(EntriesOf(ThinDays)),
         JsonArrayText(EntriesOf(NearDays)),
         JsonArrayText(EntriesOf(FullDays)), JsonObjectText,
         LinesText(<< <<"not json">> >>) }
  ELSE IF format = "csv"
  THEN { HeaderOnlyText, LinesText(<<csvHeaders>> \o CsvRowsOf(ThinDays)),
         LinesText(<<csvHeaders>> \o CsvRowsOf(NearDays)),
         LinesText(<<csvHeaders>> \o CsvRowsOf(FullDays) \o << <<>> >>),
         EmptyText }
  ELSE { LinesText(<< <<"<stats/>">> >>) }

ReadmeText == LinesText(<< <<"# insights">> >>)
MainTree == [p \in {ReadmePath} |-> createBlob(ReadmeText)]
MainCommit == createCommit("Initial commit", MainTree, <<>>, <<"", 0>>)

NoFetch == [dateString |-> "", pending |-> {}, traffic |-> NoTraffic,
            clones |-> NoTraffic]
NoPublish == [mainSha |-> MainCommit, commitSha |-> MainCommit,
              treeSha |-> MainTree, blobSha |-> EmptyText,
              newTreeSha |-> MainTree, newCommitSha |-> MainCommit]
NoOutputs == [set |-> FALSE, stargazers |-> 0, commits |-> 0,
              contributors |-> 0, traffic_views |-> 0, traffic_uniques |-> 0,
              clones_count |-> 0, clones_uniques |-> 0]
NoLoad == [outcome |-> "", stored |-> EmptyText, hadFile |-> FALSE,
           file |-> EmptyText, count |-> Undefined, head |-> MainCommit]
FnIdle == [step |-> 0, format |-> "", D |-> EmptyText, R |-> OldEntry(1),
           once |-> EmptyText, twice |-> EmptyText,
           other |-> [once |-> EmptyText, twice |-> EmptyText]]

InitRuns ==
  /\ pc = [r \in Runs |-> "idle"]
  /\ stats = [r \in Runs |-> NoStats]
  /\ insightsFile = [r \in Runs |-> EmptyText]
  /\ insightsCount = [r \in Runs |-> Undefined]
  /\ i = [r \in Runs |-> 0]
  /\ fetch = [r \in Runs |-> NoFetch]
  /\ fileContent = [r \in Runs |-> EmptyText]
  /\ publish = [r \in Runs |-> NoPublish]
  /\ outputs = [r \in Runs |-> NoOutputs]
  /\ failure = [r \in Runs |-> ""]
  /\ calls = [r \in Runs |-> <<>>]
  /\ upserts = [r \in Runs |-> <<>>]
  /\ loaded = [r \in Runs |-> NoLoad]
  /\ runDay = [r \in Runs |-> FirstDay]

\* The storage repository before the first run: main holds the README; the
\* branch is absent, or is at main's commit, or is one commit ahead with a
\* dataset file.
InitStore ==
  \/ refs = [n \in {MainRef} |-> MainCommit]
  \/ refs = [n \in {MainRef, BranchRef} |-> MainCommit]
  \/ \E file \in InitialFiles(Format) :
       refs = [n \in {MainRef, BranchRef} |->
                 IF n = MainRef THEN MainCommit
                 ELSE createCommit("Update stats file for owner/repo",
                                   createTree(MainTree, CommitPath, file),
                                   <<MainCommit>>, <<"", 0>>)]

Init ==
  /\ inputs \in [format : {"", "CSV", "xml"}, directory : {""}]
  /\ world \in Worlds
  /\ clock = FirstDay
  /\ ticks = 0
  /\ started = 0
  /\ InitStore
  /\ InitRuns
  /\ fn = FnIdle

\* ----------------------------------------------------------------- the run

Active(r) == pc[r] \notin {"idle", "done", "failed"}

\* The remote call a run awaits at each place.
CallAt(at) ==
  CASE at = "getRepoStats" -> "graphql"
    [] at = "ensure_getRef" -> "getRef"
    [] at = "ensure_getMain" -> "getRef"
    [] at = "ensure_createRef" -> "createRef"
    [] at = "getInsightsFile" -> "getContent"
    [] at = "commit_getRef" -> "getRef"
    [] at = "commit_getCommit" -> "getCommit"
    [] at = "commit_createBlob" -> "createBlob"
    [] at = "commit_createTree" -> "createTree"
    [] at = "commit_createCommit" -> "createCommit"
    [] at = "commit_updateRef" -> "updateRef"

\* The run moves on to await the call at `at`.
Goto(r, at) ==
  /\ pc' = [pc EXCEPT ![r] = at]
  /\ calls' = [calls EXCEPT ![r] = Append(@, CallAt(at))]

\* `Promise.all([getYesterdayTraffic(...), getYesterdayClones(...)])` for
\* the date string just computed: both requests are issued.
IssueFetches(r, at, dateString) ==
  /\ pc' = [pc EXCEPT ![r] = at]
  /\ calls' = [calls EXCEPT ![r] = @ \o <<"getViews", "getClones">>]
  /\ fetch' = [fetch EXCEPT ![r] =
                 [ dateString |-> dateString, pending |-> {"traffic", "clones"},
                   traffic |-> NoTraffic, clones |-> NoTraffic ]]

\* The catch of run(): `core.setFailed(...)`.
SetFailed(r, why) ==
  /\ pc' = [pc EXCEPT ![r] = "failed"]
  /\ failure' = [failure EXCEPT ![r] = why]

\* run() is invoked: the inputs are read and getRepoStats is awaited.
Start(r) ==
  /\ ~Active(r)
  /\ started < MaxRuns
  /\ started' = started + 1
  /\ pc' = [pc EXCEPT ![r] = "getRepoStats"]
  /\ calls' = [calls EXCEPT ![r] = <<CallAt("getRepoStats")>>]
  /\ stats' = [stats EXCEPT ![r] = NoStats]
  /\ insightsFile' = [insightsFile EXCEPT ![r] = EmptyText]
  /\ insightsCount' = [insightsCount EXCEPT ![r] = Undefined]
  /\ i' = [i EXCEPT ![r] = 0]
  /\ fetch' = [fetch EXCEPT ![r] = NoFetch]
  /\ fileContent' = [fileContent EXCEPT ![r] = EmptyText]
  /\ publish' = [publish EXCEPT ![r] = NoPublish]
  /\ outputs' = [outputs EXCEPT ![r] = NoOutputs]
  /\ failure' = [failure EXCEPT ![r] = ""]
  /\ upserts' = [upserts EXCEPT ![r] = <<>>]
  /\ loaded' = [loaded EXCEPT ![r] = NoLoad]
  /\ runDay' = [runDay EXCEPT ![r] = clock]
  /\ UNCHANGED <<inputs, world, clock, ticks, storeVars, fn>>

\* The sequential specification starts run "A" only.
StartSequential == Start("A")

GetRepoStatsThenLoad(r) ==
  /\ pc[r] = "getRepoStats"
  /\ \E response \in RepoResponsesOf(world) :
       stats' = [stats EXCEPT ![r] = getRepoStats(response)]
  /\ Goto(r, "getInsightsFile")
  /\ UNCHANGED <<envVars, storeVars, insightsFile, insightsCount, i,
                 fetch, fileContent, publish, outputs, failure, upserts,
                 loaded, runDay, fn>>

\* `await getRepoStats(octokitInsights, owner, repo)` returns.
GetRepoStats(r) ==
  /\ pc[r] = "getRepoStats"
  /\ \E response \in RepoResponsesOf(world) :
       stats' = [stats EXCEPT ![r] = getRepoStats(response)]
  /\ Goto(r, "ensure_getRef")
  /\ UNCHANGED <<envVars, storeVars, insightsFile, insightsCount, i,
                 fetch, fileContent, publish, outputs, failure, upserts,
                 loaded, runDay, fn>>

\* ensureBranchExists: getRef of the branch answers, with the ref or 404.
EnsureGetRef(r) ==
  /\ pc[r] = "ensure_getRef"
  /\ IF BranchExists THEN Goto(r, "getInsightsFile")
     ELSE Goto(r, "ensure_getMain")
  /\ UNCHANGED <<envVars, storeVars, stats, insightsFile,
                 insightsCount, i, fetch, fileContent, publish, outputs,
                 failure, upserts, loaded, runDay, fn>>

\* ensureBranchExists: getRef of heads/main answers.
EnsureGetMain(r) ==
  /\ pc[r] = "ensure_getMain"
  /\ publish' = [publish EXCEPT ![r].mainSha = getRef(MainRef)]
  /\ Goto(r, "ensure_createRef")
  /\ UNCHANGED <<envVars, storeVars, stats, insightsFile,
                 insightsCount, i, fetch, fileContent, outputs, failure,
                 upserts, loaded, runDay, fn>>

\* ensureBranchExists: createRef answers; the host refuses a ref that exists.
EnsureCreateRef(r) ==
  /\ pc[r] = "ensure_createRef"
  /\ IF ~BranchExists
     THEN /\ refs' = SetRef(BranchRef, publish[r].mainSha)
          /\ Goto(r, "getInsightsFile")
          /\ UNCHANGED failure
     ELSE /\ SetFailed(r, "Reference already exists")
          /\ UNCHANGED <<refs, calls>>
  /\ UNCHANGED <<envVars, stats, insightsFile,
                 insightsCount, i, fetch, fileContent, publish, outputs,
                 upserts, loaded, runDay, fn>>

\* What getContent may do: serve the file, answer 404, or fail otherwise.
LoadOutcomes ==
  IF HasFile(LoadPath) THEN {"served", "error"} ELSE {"notFound", "error"}

\* getInsightsFile returns or throws; on return the backfill test
\* `insightsCount < 14` is made and the first fetches are issued.
LoadInsightsFile(r) ==
  /\ pc[r] = "getInsightsFile"
  /\ \E outcome \in LoadOutcomes :
       LET hadFile == HasFile(LoadPath)
           stored == IF hadFile THEN FileOnBranch(LoadPath) ELSE EmptyText
           data == Base64Encode(stored)
           got == getInsightsFile(outcome = "served", Base64Decode(data),
                                  Format)
       IN /\ loaded' = [loaded EXCEPT ![r] =
                          [ outcome |-> outcome, stored |-> stored,
                            hadFile |-> hadFile, file |-> got.insightsFile,
                            count |-> got.insightsCount,
                            head |-> IF BranchExists THEN getRef(BranchRef)
                                     ELSE MainCommit ]]
          /\ IF ~got.ok
             THEN /\ SetFailed(r, "Unsupported format")
                  /\ UNCHANGED <<insightsFile, insightsCount, i, fetch, calls>>
             ELSE /\ insightsFile' = [insightsFile EXCEPT ![r] = got.insightsFile]
                  /\ insightsCount' =
                       [insightsCount EXCEPT ![r] = got.insightsCount]
                  /\ UNCHANGED failure
                  /\ IF Less(got.insightsCount, MinEntries)
                     THEN /\ i' = [i EXCEPT ![r] = BackfillStart]
                          /\ IssueFetches(r, "backfill_fetch",
                                          DateString(clock, BackfillStart))
                     ELSE /\ UNCHANGED i
                          /\ IssueFetches(r, "yesterday_fetch",
                                          getYesterdayDateString(clock))
  /\ UNCHANGED <<envVars, storeVars, stats, fileContent, publish,
                 outputs, upserts, runDay, fn>>

\* One of the two metric fetches of Promise.all returns; when both are
\* back the awaited pair is assigned to yesterdayTraffic, yesterdayClones.
FetchReturns(r) ==
  /\ pc[r] \in {"backfill_fetch", "yesterday_fetch"}
  /\ \E which \in fetch[r].pending :
       LET left == fetch[r].pending \ {which}
           src == SourceOf(world, clock)
       IN IF left # {}
          THEN /\ fetch' = [fetch EXCEPT ![r].pending = left]
               /\ UNCHANGED pc
          ELSE /\ fetch' = [fetch EXCEPT ![r] =
                 [ dateString |-> @.dateString,
                   pending |-> {},
                   traffic |-> getYesterdayTraffic(src, @.dateString),
                   clones |-> getYesterdayClones(src, @.dateString) ]]
               /\ pc' = [pc EXCEPT ![r] =
                           IF @ = "backfill_fetch" THEN "backfill_generate"
                           ELSE "yesterday_generate"]
  /\ UNCHANGED <<envVars, storeVars, stats, insightsFile,
                 insightsCount, i, fileContent, publish, outputs, failure,
                 calls, upserts, loaded, runDay, fn>>

FetchedEntryStaleTotals(r) ==
  NewEntry(fetch[r].dateString, NoStats, fetch[r].traffic, fetch[r].clones)

\* The entry generateFileContent builds from the fetched metrics.
FetchedEntry(r) ==
  NewEntry(fetch[r].dateString, stats[r], fetch[r].traffic, fetch[r].clones)

BackfillGenerateSpins(r) ==
  /\ pc[r] = "backfill_generate"
  /\ i[r] - 1 # BackfillStop
  /\ LET made == generateFileContent(insightsFile[r], FetchedEntry(r), Format)
     IN IF ~made.ok
        THEN /\ SetFailed(r, "Unable to generate file content")
             /\ UNCHANGED <<insightsFile, i, fetch, calls, upserts>>
        ELSE /\ insightsFile' = [insightsFile EXCEPT ![r] = made.content]
             /\ upserts' = [upserts EXCEPT ![r] = Append(@,
                  [ step |-> "backfill", offset |-> i[r],
                    date |-> fetch[r].dateString ])]
             /\ i' = [i EXCEPT ![r] = @ - 1]
             /\ UNCHANGED failure
             /\ IF i[r] - 1 # BackfillStop
                THEN IssueFetches(r, "backfill_fetch",
                                  DateString(clock, i[r] - 1))
                ELSE IssueFetches(r, "yesterday_fetch",
                                  getYesterdayDateString(clock))
  /\ UNCHANGED <<envVars, storeVars, stats, insightsCount,
                 fileContent, publish, outputs, loaded, runDay, fn>>

\* One pass of the backfill loop after its fetches: generateFileContent,
\* `i--`, the loop test `i != 1`, and the fetches of the next date.
BackfillGenerate(r) ==
  /\ pc[r] = "backfill_generate"
  /\ LET made == generateFileContent(insightsFile[r], FetchedEntry(r), Format)
     IN IF ~made.ok
        THEN /\ SetFailed(r, "Unable to generate file content")
             /\ UNCHANGED <<insightsFile, i, fetch, calls, upserts>>
        ELSE /\ insightsFile' = [insightsFile EXCEPT ![r] = made.content]
             /\ upserts' = [upserts EXCEPT ![r] = Append(@,
                  [ step |-> "backfill", offset |-> i[r],
                    date |-> fetch[r].dateString ])]
             /\ i' = [i EXCEPT ![r] = @ - 1]
             /\ UNCHANGED failure
             /\ IF i[r] - 1 # BackfillStop
                THEN IssueFetches(r, "backfill_fetch",
                                  DateString(clock, i[r] - 1))
                ELSE IssueFetches(r, "yesterday_fetch",
                                  getYesterdayDateString(clock))
  /\ UNCHANGED <<envVars, storeVars, stats, insightsCount,
                 fileContent, publish, outputs, loaded, runDay, fn>>

\* setOutputs
setOutputs(st, traffic, clones) ==
  [ set |-> TRUE,
    stargazers |-> st.stargazerCount,
    commits |-> st.commitCount,
    contributors |-> st.contributorsCount,
    traffic_views |-> traffic.count,
    traffic_uniques |-> traffic.uniques,
    clones_count |-> clones.count,
    clones_uniques |-> clones.uniques ]

\* After yesterday's fetches: logResults, setOutputs, generateFileContent,
\* and the first call of commitFileToBranch.
YesterdayGenerate(r) ==
  /\ pc[r] = "yesterday_generate"
  /\ outputs' = [outputs EXCEPT ![r] =
                   setOutputs(stats[r], fetch[r].traffic, fetch[r].clones)]
  /\ LET made == generateFileContent(insightsFile[r], FetchedEntry(r), Format)
     IN IF ~made.ok
        THEN /\ SetFailed(r, "Unable to generate file content")
             /\ UNCHANGED <<fileContent, calls, upserts>>
        ELSE /\ fileContent' = [fileContent EXCEPT ![r] = made.content]
             /\ upserts' = [upserts EXCEPT ![r] = Append(@,
                  [ step |-> "yesterday", offset |-> 1,
                    date |-> fetch[r].dateString ])]
             /\ Goto(r, "commit_getRef")
             /\ UNCHANGED failure
  /\ UNCHANGED <<envVars, storeVars, stats, insightsFile,
                 insightsCount, i, fetch, publish, loaded, runDay, fn>>

\* commitFileToBranch: getRef of the branch answers.
CommitGetRef(r) ==
  /\ pc[r] = "commit_getRef"
  /\ IF BranchExists
     THEN /\ publish' = [publish EXCEPT ![r].commitSha = getRef(BranchRef)]
          /\ Goto(r, "commit_getCommit")
          /\ UNCHANGED failure
     ELSE /\ SetFailed(r, "Not Found")
          /\ UNCHANGED <<publish, calls>>
  /\ UNCHANGED <<envVars, storeVars, stats, insightsFile,
                 insightsCount, i, fetch, fileContent, outputs, upserts,
                 loaded, runDay, fn>>

\* commitFileToBranch: getCommit answers.
CommitGetCommit(r) ==
  /\ pc[r] = "commit_getCommit"
  /\ publish' = [publish EXCEPT ![r].treeSha =
                   getCommitTree(publish[r].commitSha)]
  /\ Goto(r, "commit_createBlob")
  /\ UNCHANGED <<envVars, storeVars, stats, insightsFile,
                 insightsCount, i, fetch, fileContent, outputs, failure,
                 upserts, loaded, runDay, fn>>

\* commitFileToBranch: createBlob answers.
CommitCreateBlob(r) ==
  /\ pc[r] = "commit_createBlob"
  /\ publish' = [publish EXCEPT ![r].blobSha = createBlob(fileContent[r])]
  /\ Goto(r, "commit_createTree")
  /\ UNCHANGED <<envVars, storeVars, stats,
                 insightsFile, insightsCount, i, fetch, fileContent, outputs,
                 failure, upserts, loaded, runDay, fn>>

\* commitFileToBranch: createTree answers.
CommitCreateTree(r) ==
  /\ pc[r] = "commit_createTree"
  /\ publish' = [publish EXCEPT ![r].newTreeSha =
                   createTree(publish[r].treeSha, CommitPath,
                              publish[r].blobSha)]
  /\ Goto(r, "commit_createCommit")
  /\ UNCHANGED <<envVars, storeVars, stats,
                 insightsFile, insightsCount, i, fetch, fileContent, outputs,
                 failure, upserts, loaded, runDay, fn>>

CommitCreateCommitMovesRef(r) ==
  /\ pc[r] = "commit_createCommit"
  /\ publish' = [publish EXCEPT ![r].newCommitSha =
                   createCommit("Update stats file for owner/repo",
                                publish[r].newTreeSha,
                                <<publish[r].commitSha>>, <<r, started>>)]
  /\ refs' = SetRef(BranchRef,
                    createCommit("Update stats file for owner/repo",
                                 publish[r].newTreeSha,
                                 <<publish[r].commitSha>>, <<r, started>>))
  /\ Goto(r, "commit_updateRef")
  /\ UNCHANGED <<envVars, stats,
                 insightsFile, insightsCount, i, fetch, fileContent, outputs,
                 failure, upserts, loaded, runDay, fn>>

\* commitFileToBranch: createCommit answers.
CommitCreateCommit(r) ==
  /\ pc[r] = "commit_createCommit"
  /\ publish' = [publish EXCEPT ![r].newCommitSha =
                   createCommit("Update stats file for owner/repo",
                                publish[r].newTreeSha,
                                <<publish[r].commitSha>>, <<r, started>>)]
  /\ Goto(r, "commit_updateRef")
  /\ UNCHANGED <<envVars, storeVars, stats,
                 insightsFile, insightsCount, i, fetch, fileContent, outputs,
                 failure, upserts, loaded, runDay, fn>>

CommitUpdateRefRetries(r) ==
  /\ pc[r] = "commit_updateRef"
  /\ IF updateRefAccepted(publish[r].newCommitSha)
     THEN /\ refs' = SetRef(BranchRef, publish[r].newCommitSha)
          /\ pc' = [pc EXCEPT ![r] = "done"]
          /\ UNCHANGED <<failure, calls>>
     ELSE /\ Goto(r, "commit_getRef")
          /\ UNCHANGED <<refs, failure>>
  /\ UNCHANGED <<envVars, stats, insightsFile,
                 insightsCount, i, fetch, fileContent, publish, outputs,
                 upserts, loaded, runDay, fn>>

\* commitFileToBranch: updateRef answers and run() returns.
CommitUpdateRef(r) ==
  /\ pc[r] = "commit_updateRef"
  /\ IF updateRefAccepted(publish[r].newCommitSha)
     THEN /\ refs' = SetRef(BranchRef, publish[r].newCommitSha)
          /\ pc' = [pc EXCEPT ![r] = "done"]
          /\ UNCHANGED failure
     ELSE /\ SetFailed(r, "Update is not a fast forward")
          /\ UNCHANGED refs
  /\ UNCHANGED <<envVars, stats, insightsFile,
                 insightsCount, i, fetch, fileContent, publish, outputs,
                 calls, upserts, loaded, runDay, fn>>

\* The places where a failing remote call rejects the awaited promise and
\* the catch of run() is reached. (getContent is awaited inside the try of
\* getInsightsFile, see LoadInsightsFile.)
ThrowingPlaces ==
  { "getRepoStats", "ensure_getRef", "ensure_getMain", "ensure_createRef",
    "backfill_fetch", "yesterday_fetch", "commit_getRef", "commit_getCommit",
    "commit_createBlob", "commit_createTree", "commit_createCommit",
    "commit_updateRef" }

\* A remote call fails (authentication, rate limit, network): the awaited
\* promise rejects; of a rejected Promise.all nothing is assigned.
RemoteCallFails(r) ==
  /\ pc[r] \in ThrowingPlaces
  /\ SetFailed(r, "Request failed")
  /\ fetch' = [fetch EXCEPT ![r].pending = {}]
  /\ UNCHANGED <<envVars, storeVars, stats, insightsFile,
                 insightsCount, i, fileContent, publish, outputs,
                 calls, upserts, loaded, runDay, fn>>

\* Midnight passes while no run is in progress and another run may follow.
Tick ==
  /\ \A r \in Runs : ~Active(r)
  /\ ticks < MaxTicks
  /\ started < MaxRuns
  /\ ticks' = ticks + 1
  /\ clock' = clock + 1
  /\ UNCHANGED <<inputs, world, started, storeVars, runVars, fn>>

Step(r) ==
  \/ GetRepoStats(r)
  \/ EnsureGetRef(r)
  \/ EnsureGetMain(r)
  \/ EnsureCreateRef(r)
  \/ LoadInsightsFile(r)
  \/ FetchReturns(r)
  \/ BackfillGenerate(r)
  \/ YesterdayGenerate(r)
  \/ CommitGetRef(r)
  \/ CommitGetCommit(r)
  \/ CommitCreateBlob(r)
  \/ CommitCreateTree(r)
  \/ CommitCreateCommit(r)
  \/ CommitUpdateRef(r)
  \/ RemoteCallFails(r)

Next ==
  \/ StartSequential
  \/ Step("A")
  \/ Tick

Spec == Init /\ [][Next]_vars

\* Every awaited call returns or fails, and the code between two awaits
\* runs to the next await: a run that can take a step takes one.
SpecLive == Spec /\ WF_vars(Step("A"))

\* ------------------------------------------- the upsert on drawn inputs

\* The records the upsert function is applied to: two dates, two values.
DrawnEntries ==
  { NewEntry(IsoTable[d],
             [stargazerCount |-> v, commitCount |-> 2, contributorsCount |-> 1],
             NoTraffic, NoTraffic) : d \in 1..2, v \in 1..2 }

\* Sequences over a set, to a length.
SeqsTo(S, n) == UNION {[1..m -> S] : m \in 0..n}

\* The dataset texts the upsert function is applied to: any record sequence
\* up to MaxLen (repeated dates included); in csv under the header line,
\* with or without a newline at the end.
DrawnTexts(format) ==
  IF format = "json"
  THEN {JsonArrayText(d) : d \in SeqsTo(DrawnEntries, MaxLen)}
  ELSE { LinesText(<<csvHeaders>> \o [k \in 1..Len(d) |-> CsvLine(d[k])] \o e) :
           d \in SeqsTo(DrawnEntries, MaxLen), e \in {<<>>, << <<>> >>} }

InitUpsert ==
  /\ inputs \in [format : {"", "CSV"}, directory : {"", "data"}]
  /\ world = "quiet"
  /\ clock = FirstDay
  /\ ticks = 0
  /\ started = 0
  /\ refs = [n \in {MainRef} |-> MainCommit]
  /\ InitRuns
  /\ \E format \in {Format} :
       \E D \in DrawnTexts(format), R \in DrawnEntries :
         fn = [FnIdle EXCEPT !.format = format, !.D = D, !.R = R]

\* generateFileContent(D, R)
ApplyOnce ==
  /\ fn.step = 0
  /\ fn' = [fn EXCEPT !.step = 1,
                      !.once = generateFileContent(fn.D, fn.R, fn.format).content]
  /\ UNCHANGED <<envVars, storeVars, runVars>>

\* generateFileContent(generateFileContent(D, R), R)
ApplyTwice ==
  /\ fn.step = 1
  /\ fn' = [fn EXCEPT !.step = 2,
                      !.twice = generateFileContent(fn.once, fn.R, fn.format).content]
  /\ UNCHANGED <<envVars, storeVars, runVars>>

\* The record a csv line holds, field by field under the header.
EntryOfLine(line) ==
  [ date |-> line[1], stargazers |-> line[2], commits |-> line[3],
    contributors |-> line[4], traffic_views |-> line[5],
    traffic_uniques |-> line[6], clones_count |-> line[7],
    clones_uniques |-> line[8] ]

\* The records of a dataset text as entries, whatever the format.
EntriesIn(text, format) ==
  IF format = "json" THEN JsonParse(text).items
  ELSE LET rows == SelectSeq(FilterBlank(Split(text)),
                             LAMBDA line : line # csvHeaders)
       IN [k \in 1..Len(rows) |-> EntryOfLine(rows[k])]

\* The same record sequence written as a file of the other format: a JSON
\* array, or the csv header line followed by one line per record.
OtherFormat(format) == IF format = "json" THEN "csv" ELSE "json"
InOtherFormat(text, format) ==
  LET entries == EntriesIn(text, format)
  IN IF format = "json"
     THEN LinesText(<<csvHeaders>> \o
                    [k \in 1..Len(entries) |-> CsvLine(entries[k])])
     ELSE JsonArrayText(entries)

\* The same two upserts through the path of the other format, from the
\* same record sequence.
ApplyOtherFormat ==
  /\ fn.step = 2
  /\ LET format == OtherFormat(fn.format)
         once == generateFileContent(InOtherFormat(fn.D, fn.format), fn.R,
                                     format).content
     IN fn' = [fn EXCEPT !.step = 3,
                         !.other = [ once |-> once,
                                     twice |-> generateFileContent(
                                                 once, fn.R, format).content ]]
  /\ UNCHANGED <<envVars, storeVars, runVars>>

NextUpsert == ApplyOnce \/ ApplyTwice \/ ApplyOtherFormat

SpecUpsert == InitUpsert /\ [][NextUpsert]_vars

\* ------------------------------------------------------ reading a dataset

\* The record sequence a dataset text holds: the items of the JSON array,
\* or in csv the lines that are neither blank nor the header line.
NotHeader(line) == line # csvHeaders
RecordsOf(text, format) ==
  IF format = "json" THEN JsonParse(text).items
  ELSE SelectSeq(FilterBlank(Split(text)), NotHeader)

\* The dates of the records of a dataset text, in order.
DatesOf(text, format) ==
  [k \in 1..Len(RecordsOf(text, format)) |->
     IF format = "json" THEN RecordsOf(text, format)[k].date
     ELSE RecordsOf(text, format)[k][1]]

\* The date of a record of that sequence.
DateOf(rec, format) == IF format = "json" THEN rec.date ELSE rec[1]

\* The record of that sequence an entry is written as.
AsRecord(entry, format) == IF format = "json" THEN entry ELSE CsvLine(entry)

HasDate(recs, date, format) ==
  \E k \in 1..Len(recs) : DateOf(recs[k], format) = date

\* No two records of the sequence share a date.
DatesUnique(recs, format) ==
  \A j, k \in 1..Len(recs) :
    DateOf(recs[j], format) = DateOf(recs[k], format) => j = k

\* ------------------------------------------------------------------ claims

\* C1: the upsert is idempotent. For every drawn dataset D and record R, in
\* the json and in the csv path of generateFileContent, upserting R into
\* the result of upserting R into D gives that same result again.
C1_UpsertIdempotent == fn.step = 2 => fn.twice = fn.once

\* C1 is met where R's date was not in a csv dataset: the first upsert
\* appended a row and the second added nothing.
C1_Witness ==
  /\ fn.step = 2
  /\ fn.format = "csv"
  /\ Len(RecordsOf(fn.D, "csv")) > 0
  /\ ~HasDate(RecordsOf(fn.D, "csv"), fn.R.date, "csv")
  /\ Len(RecordsOf(fn.twice, "csv")) = Len(RecordsOf(fn.D, "csv")) + 1

\* C3: an upsert of R changes at most one position. If a record with R's
\* date exists, the length is unchanged and one position that held R's date
\* now holds R, every other position keeping its record; otherwise the
\* result is the dataset with R added at the end.
C3_UpsertFrame ==
  fn.step >= 1 =>
    LET before == RecordsOf(fn.D, fn.format)
        after == RecordsOf(fn.once, fn.format)
        rec == AsRecord(fn.R, fn.format)
    IN IF HasDate(before, fn.R.date, fn.format)
       THEN /\ Len(after) = Len(before)
            /\ \E k \in 1..Len(before) :
                 /\ DateOf(before[k], fn.format) = fn.R.date
                 /\ after[k] = rec
                 /\ \A j \in 1..Len(before) : j # k => after[j] = before[j]
       ELSE /\ Len(after) = Len(before) + 1
            /\ after[Len(after)] = rec
            /\ \A j \in 1..Len(before) : after[j] = before[j]

\* C3 is met where a json dataset of three records holds R's date at its
\* second position with another value: that position alone is replaced.
C3_Witness ==
  /\ fn.step = 1
  /\ fn.format = "json"
  /\ Len(RecordsOf(fn.D, "json")) = 3
  /\ RecordsOf(fn.D, "json")[2].date = fn.R.date
  /\ RecordsOf(fn.D, "json")[1].date # fn.R.date
  /\ RecordsOf(fn.D, "json")[2] # fn.R
  /\ RecordsOf(fn.once, "json")[2] = fn.R
  /\ RecordsOf(fn.once, "json")[3] = RecordsOf(fn.D, "json")[3]


\* Where a run is once the backfill is over and yesterday's update is not
\* yet applied, and where it is inside commitFileToBranch.
BeforeUpdate == {"yesterday_fetch", "yesterday_generate"}
CommitPlaces ==
  { "commit_getRef", "commit_getCommit", "commit_createBlob",
    "commit_createTree", "commit_createCommit", "commit_updateRef" }

\* Whether the run has issued a remote call of that name.
Issued(r, name) == \E k \in 1..Len(calls[r]) : calls[r][k] = name

\* The upserts of the backfill loop and their offsets, in order.
IsBackfill(u) == u.step = "backfill"
BackfillOffsets(r) ==
  LET bf == SelectSeq(upserts[r], IsBackfill)
  IN [k \in 1..Len(bf) |-> bf[k].offset]

\* C2: every dataset passed to commitFileToBranch holds at most one record
\* per date, in every run of a sequence of runs that starts without a file
\* or from a file whose records have distinct dates.
C2_DatesUnique ==
  pc["A"] \in CommitPlaces \cup {"done"} =>
    DatesUnique(RecordsOf(fileContent["A"], Format), Format)

\* C2 is met by a second run, on the next day, that adds a fifteenth record
\* to the fourteen its predecessor published.
C2_Witness ==
  /\ pc["A"] = "commit_createBlob"
  /\ started = 2
  /\ Len(RecordsOf(fileContent["A"], Format)) = 15
  /\ HasFile(LoadPath)
  /\ Len(RecordsOf(FileOnBranch(LoadPath), Format)) = 14

\* C4: the backfill is all-or-nothing on the loaded record count k. With
\* k >= 14 it upserts nothing; with k < 14 it upserts for the offsets 14,
\* 13, ... in that order, never past 2, and has done all 13 when the run
\* goes on to yesterday's update.
C4_BackfillAllOrNothing ==
  LET k == insightsCount["A"]
      offsets == BackfillOffsets("A")
  IN /\ (k.isNum /\ k.n >= 14) => offsets = <<>>
     /\ Len(offsets) <= 13
     /\ \A n \in 1..Len(offsets) : offsets[n] = 15 - n
     /\ (k.isNum /\ k.n < 14 /\ pc["A"] \in BeforeUpdate \cup CommitPlaces \cup {"done"})
          => offsets = <<14, 13, 12, 11, 10, 9, 8, 7, 6, 5, 4, 3, 2>>

\* C4 is met by a run that loaded 13 records, yesterday's among them, and
\* still did all 13 upserts.
C4_Witness ==
  /\ pc["A"] = "yesterday_fetch"
  /\ insightsCount["A"] = Num(13)
  /\ Len(BackfillOffsets("A")) = 13
  /\ Len(RecordsOf(insightsFile["A"], Format)) = 14

\* The backfill was triggered and is over, yesterday's update not applied.
BackfillJustDone ==
  /\ pc["A"] \in BeforeUpdate
  /\ insightsCount["A"].isNum
  /\ insightsCount["A"].n < 14

\* C5 as stated: once a triggered backfill is over, and before yesterday's
\* update is applied, the dataset in memory holds a record for each of the
\* 14 days today-1 back to today-14.
C5_Original ==
  BackfillJustDone =>
    \A off \in 1..14 :
      HasDate(RecordsOf(insightsFile["A"], Format),
              IsoTable[runDay["A"] - off], Format)

\* C5 amended: at that moment the dataset in memory holds a record for
\* each of the 13 days today-2 back to today-14.
C5_BackfillCoversWindow ==
  BackfillJustDone =>
    \A off \in 2..14 :
      HasDate(RecordsOf(insightsFile["A"], Format),
              IsoTable[runDay["A"] - off], Format)

\* C5 amended is met after a backfill into an empty dataset: 13 records,
\* none of them yesterday's.
C5_Witness ==
  /\ BackfillJustDone
  /\ loaded["A"].count = Num(0)
  /\ Len(RecordsOf(insightsFile["A"], Format)) = 13
  /\ ~HasDate(RecordsOf(insightsFile["A"], Format),
              IsoTable[runDay["A"] - 1], Format)

\* The load found no file, or the file of an empty dataset: the JSON text
\* `[]`, or in csv the header line alone.
LoadedEmpty(r) ==
  \/ loaded[r].outcome = "notFound"
  \/ /\ loaded[r].outcome = "served"
     /\ \/ /\ Format = "json"
           /\ loaded[r].stored.syntax = "json"
           /\ loaded[r].stored.array
           /\ Len(loaded[r].stored.items) = 0
        \/ /\ Format = "csv"
           /\ loaded[r].stored.syntax = "lines"
           /\ FilterBlank(loaded[r].stored.items) = <<csvHeaders>>

\* The 14 days today-14 ... today-1, oldest first.
WindowDates(r) == [k \in 1..14 |-> IsoTable[runDay[r] - 15 + k]]

\* C6: a successful run that loaded an empty dataset has published exactly
\* 14 records in either format: today-14 ... today-2 in that order, then
\* today-1, no date twice.
C6_EmptyStartPublishes14 ==
  (pc["A"] = "done" /\ LoadedEmpty("A")) =>
    /\ HasFile(CommitPath)
    /\ FileOnBranch(CommitPath) = fileContent["A"]
    /\ DatesOf(fileContent["A"], Format) = WindowDates("A")
    /\ DatesUnique(RecordsOf(fileContent["A"], Format), Format)

\* C6 is met by a csv run over a file that held the header line only.
C6_Witness ==
  /\ pc["A"] = "done"
  /\ Format = "csv"
  /\ loaded["A"].outcome = "served"
  /\ LoadedEmpty("A")
  /\ Len(RecordsOf(FileOnBranch(CommitPath), Format)) = 14

\* C7: when getContent answers not found, getInsightsFile does not fail; it
\* returns the empty dataset of the format (the empty array, the header
\* line only) with a count of 0, and the run goes on to fetch metrics.
C7_NotFoundFallback ==
  (loaded["A"].outcome = "notFound" /\ Format \in {"json", "csv"}) =>
    /\ loaded["A"].count = Num(0)
    /\ RecordsOf(loaded["A"].file, Format) = <<>>
    /\ loaded["A"].file =
         IF Format = "json" THEN JsonArrayText(<<>>) ELSE HeaderOnlyText
    /\ failure["A"] # "Unsupported format"
    /\ Issued("A", "getViews")

\* C7 is met by a json run on a branch without the file, right after the
\* load.
C7_Witness ==
  /\ loaded["A"].outcome = "notFound"
  /\ Format = "json"
  /\ pc["A"] = "backfill_fetch"
  /\ i["A"] = 14
  /\ upserts["A"] = <<>>

\* C8 as stated: when getContent fails for another reason than not found,
\* the run is aborted and reported as failed, with no upsert and no publish.
C8_Original ==
  loaded["A"].outcome = "error" =>
    /\ pc["A"] = "failed"
    /\ upserts["A"] = <<>>
    /\ \A call \in {"createBlob", "createTree", "createCommit", "updateRef"} :
         ~Issued("A", call)

\* C9 as stated: when the stored file does not parse as JSON, the run is
\* aborted and reported as failed and the file on the branch stays as it is.
C9_Original ==
  ( /\ loaded["A"].outcome = "served"
    /\ Format = "json"
    /\ ~JsonParses(loaded["A"].stored) ) =>
    /\ pc["A"] = "failed"
    /\ HasFile(LoadPath)
    /\ FileOnBranch(LoadPath) = loaded["A"].stored

UnsupportedFormat == Format \notin {"json", "csv"}

\* C10 as stated: with a format that is neither json nor csv no createRef,
\* createBlob, createTree, createCommit or updateRef is issued.
C10_Original ==
  UnsupportedFormat =>
    \A call \in {"createRef", "createBlob", "createTree", "createCommit",
                 "updateRef"} : ~Issued("A", call)

\* C10 amended: with such a format the run never succeeds, fails with
\* "Unsupported format" as soon as the load returns, issues no createBlob,
\* createTree, createCommit or updateRef and does not move an existing
\* branch; the one mutation it may have issued is the createRef of the
\* branch provisioning, which runs before the format is looked at.
C10_UnsupportedFormatAborts ==
  UnsupportedFormat =>
    /\ pc["A"] # "done"
    /\ loaded["A"].outcome # "" =>
         (pc["A"] = "failed" /\ failure["A"] = "Unsupported format")
    /\ \A call \in {"createBlob", "createTree", "createCommit", "updateRef"} :
         ~Issued("A", call)
    /\ upserts["A"] = <<>>
    /\ BranchExists => getRef(BranchRef).stamp = <<"", 0>>

\* C10 amended is met by a run that created the absent branch and then
\* failed on the format.
C10_Witness ==
  /\ UnsupportedFormat
  /\ pc["A"] = "failed"
  /\ failure["A"] = "Unsupported format"
  /\ Issued("A", "createRef")
  /\ BranchExists

\* --------------------------------------------------- claims on provisioning

\* Where a run is inside ensureBranchExists.
EnsurePlaces == {"ensure_getRef", "ensure_getMain", "ensure_createRef"}

\* C11: ensureBranchExists is idempotent. A step of it taken while the
\* branch is absent either leaves the refs alone or creates the branch at
\* the commit main is at; a step of it taken while the branch exists
\* leaves every ref as it is, and the call returns without a createRef.
C11_EnsureIdempotent ==
  [][ pc["A"] \in EnsurePlaces =>
        IF BranchRef \in DOMAIN refs
        THEN /\ refs' = refs
             /\ pc'["A"] = "getInsightsFile" => ~Issued("A", "createRef")'
        ELSE \/ refs' = refs
             \/ /\ refs' = SetRef(BranchRef, refs[MainRef])
                /\ pc'["A"] = "getInsightsFile" ]_vars

\* C11 is met where a run found no branch and has created it at main's
\* commit.
C11_Witness ==
  /\ pc["A"] = "getInsightsFile"
  /\ Issued("A", "createRef")
  /\ refs[BranchRef] = refs[MainRef]

\* ------------------------------------------------------- claims on publish

\* The calls of commitFileToBranch, in the order of the code.
PublishCalls ==
  <<"getRef", "getCommit", "createBlob", "createTree", "createCommit",
    "updateRef">>

\* The last n calls a run has issued.
LastCalls(r, n) ==
  IF Len(calls[r]) < n THEN <<>>
  ELSE SubSeq(calls[r], Len(calls[r]) - n + 1, Len(calls[r]))

\* C12: a publish with no other writer keeps the history linear. When the
\* updateRef of a run is accepted, the calls of the publish were getRef,
\* getCommit, createBlob, createTree, createCommit, updateRef in that
\* order; the new head has one parent, the head the branch had until then
\* (the one the first step read); its tree is that head's tree with the
\* entry at the dataset path added or replaced by the new content and every
\* other entry as it was.
C12_LinearPublish ==
  [][ (pc["A"] = "commit_updateRef" /\ pc'["A"] = "done") =>
        LET old == refs[BranchRef]
            new == refs'[BranchRef]
        IN /\ LastCalls("A", Len(PublishCalls)) = PublishCalls
           /\ publish["A"].commitSha = old
           /\ new = publish["A"].newCommitSha
           /\ new # old
           /\ new.parents = <<old>>
           /\ DOMAIN new.tree = DOMAIN old.tree \cup {CommitPath}
           /\ new.tree[CommitPath] = fileContent["A"]
           /\ \A p \in DOMAIN old.tree :
                p # CommitPath => new.tree[p] = old.tree[p]
           /\ refs'[MainRef] = refs[MainRef] ]_vars

\* C12 is met where a second run has published over the commit of the
\* first: the head's parent is the first run's commit, whose tree held the
\* README and the dataset file.
C12_Witness ==
  /\ pc["A"] = "done"
  /\ started = 2
  /\ refs[BranchRef].stamp = <<"A", 2>>
  /\ refs[BranchRef].parents[1].stamp = <<"A", 1>>
  /\ ReadmePath \in DOMAIN refs[BranchRef].tree
  /\ CommitPath \in DOMAIN refs[BranchRef].parents[1].tree

\* C13: within one run the head of the branch moves at most once, and only
\* by the final updateRef. The refs change only when ensureBranchExists
\* creates the absent branch and when the updateRef that ends the run is
\* accepted; a run that ends as failed changes no ref in that step, and
\* once the dataset was loaded a failed run has left the branch at the
\* commit it was at after the provisioning.
C13_HeadMovesOnce ==
  /\ [][ /\ refs' # refs =>
              \/ /\ pc["A"] = "ensure_createRef"
                 /\ BranchRef \notin DOMAIN refs
                 /\ pc'["A"] = "getInsightsFile"
              \/ /\ pc["A"] = "commit_updateRef"
                 /\ pc'["A"] = "done"
         /\ pc'["A"] = "failed" => refs' = refs ]_vars
  /\ [](( /\ pc["A"] \in {"failed"} \cup (CommitPlaces \cup BeforeUpdate)
          /\ loaded["A"].outcome # "" ) =>
          refs[BranchRef] = loaded["A"].head)

\* C13 is met where the updateRef itself failed after the whole pipeline:
\* the branch is still at the commit it was at when the dataset was loaded.
C13_Witness ==
  /\ pc["A"] = "failed"
  /\ LastCalls("A", 1) = <<"updateRef">>
  /\ refs[BranchRef] = loaded["A"].head
  /\ publish["A"].newCommitSha # refs[BranchRef]
  /\ publish["A"].newCommitSha.parents = <<refs[BranchRef]>>

\* ---------------------------------------------------- claims on file paths

\* C14 as stated: for every configuration the path the dataset is loaded
\* from is the path it is published to, in the action (src/load.js) and in
\* its older variant (src/unnamed/part_000).
C14_Original ==
  /\ LoadPath = CommitPath
  /\ OlderLoadPath = OlderCommitPath

\* ---------------------------------------------------- claims on round trip

\* A text that encodes a dataset: a JSON array, or in csv the header line
\* followed by rows only.
WellFormed(text, format) ==
  IF format = "json" THEN JsonParses(text) /\ JsonParse(text).array
  ELSE /\ text.syntax = "lines"
       /\ Len(text.items) >= 1
       /\ text.items[1] = csvHeaders
       /\ \A k \in 2..Len(text.items) :
            NotBlank(text.items[k]) /\ NotHeader(text.items[k])

\* The file a run was served is the one the run before it published.
LoadedOwnPublish(r) ==
  /\ loaded[r].outcome = "served"
  /\ loaded[r].head.stamp = <<r, 1>>

PhaseOfCall(r, k) ==
  LET name == calls[r][k]
      before == SubSeq(calls[r], 1, k - 1)
      Fetched == \E j \in 1..Len(before) : before[j] = "getViews"
  IN CASE name = "graphql" -> 1
       [] name = "createRef" -> 2
       [] name = "getRef" -> IF Fetched THEN 5 ELSE 2
       [] name = "getContent" -> 3
       [] name \in {"getViews", "getClones"} -> 4
       [] OTHER -> 5

\* The upserts so far are backfill upserts, then at most one for yesterday,
\* the last.
UpsertsInOrder(r) ==
  \A k \in 1..Len(upserts[r]) :
    upserts[r][k].step = "yesterday" => k = Len(upserts[r])

\* How many calls of that name the run has issued.
CountCalls(r, name) ==
  Cardinality({k \in 1..Len(calls[r]) : calls[r][k] = name})

\* C16: the steps of a run happen in a fixed order. The remote calls are
\* issued phase after phase (totals, provisioning, load, fetches, publish)
\* and never back; the dataset is loaded only once the branch exists; an
\* upsert is made only after the load has returned and after both fetches
\* of its date are back; every backfill upsert precedes yesterday's; the
\* calls of the publish are issued only after yesterday's upsert, in their
\* order, and nothing is issued after them; two requests are in flight
\* together only as the paired fetches of one date.
C16_StepOrder ==
  /\ \A j, k \in 1..Len(calls["A"]) :
       j < k => PhaseOfCall("A", j) <= PhaseOfCall("A", k)
  /\ CountCalls("A", "getContent") <= 1
  /\ (pc["A"] = "getInsightsFile" \/ loaded["A"].outcome # "") =>
       BranchRef \in DOMAIN refs
  /\ upserts["A"] # <<>> => loaded["A"].outcome # ""
  /\ UpsertsInOrder("A")
  /\ Len(upserts["A"]) <= CountCalls("A", "getViews")
  /\ CountCalls("A", "getViews") <= Len(upserts["A"]) + 1
  /\ CountCalls("A", "getViews") = CountCalls("A", "getClones")
  /\ fetch["A"].pending # {} =>
       /\ pc["A"] \in {"backfill_fetch", "yesterday_fetch"}
       /\ LastCalls("A", 2) = <<"getViews", "getClones">>
       /\ CountCalls("A", "getViews") = Len(upserts["A"]) + 1
  /\ pc["A"] \in CommitPlaces \cup {"done"} =>
       /\ upserts["A"] # <<>>
       /\ upserts["A"][Len(upserts["A"])].step = "yesterday"
       /\ \E n \in 1..Len(PublishCalls) :
            /\ LastCalls("A", n) = SubSeq(PublishCalls, 1, n)
            /\ PhaseOfCall("A", Len(calls["A"]) - n) = 4
  /\ pc["A"] = "done" => LastCalls("A", Len(PublishCalls)) = PublishCalls

\* C16 is met by a run that created the branch, loaded, backfilled and
\* published: 14 upserts, then the six calls of the publish.
C16_Witness ==
  /\ pc["A"] = "done"
  /\ Issued("A", "createRef")
  /\ Len(upserts["A"]) = MinEntries
  /\ LastCalls("A", Len(PublishCalls)) = PublishCalls

\* ------------------------------------------------------ claims on outputs

\* C17 as stated: in a run that ends reported as failed none of the named
\* outputs has been set.
C17_Original == pc["A"] = "failed" => ~outputs["A"].set

\* ------------------------------------------------------------ racing runs

\* Two runs of the action started by two workflows on the same storage
\* branch: their steps interleave, and midnight may pass between the last
\* fetch of one and the start of the other.
\* The branch holds a dataset of 14 records, or does not exist yet.
InitRace ==
  /\ inputs \in [format : {"", "CSV"}, directory : {""}]
  /\ world = "still"
  /\ clock = FirstDay
  /\ ticks = 0
  /\ started = 0
  /\ \/ refs = [n \in {MainRef} |-> MainCommit]
     \/ \E file \in { IF Format = "json"
                      THEN JsonArrayText(EntriesOf(FullDays))
                      ELSE LinesText(<<csvHeaders>> \o CsvRowsOf(FullDays)) } :
          refs = [n \in {MainRef, BranchRef} |->
                    IF n = MainRef THEN MainCommit
                    ELSE createCommit("Update stats file for owner/repo",
                                      createTree(MainTree, CommitPath, file),
                                      <<MainCommit>>, <<"", 0>>)]
  /\ InitRuns
  /\ fn = FnIdle

\* Midnight passes while one run has gathered yesterday's metrics and has
\* not finished publishing, and the other run has not started yet.
TickRace ==
  /\ ticks < MaxTicks
  /\ \E r \in Runs : pc[r] \in CommitPlaces \cup {"yesterday_generate"}
  /\ \E r \in Runs : pc[r] = "idle"
  /\ ticks' = ticks + 1
  /\ clock' = clock + 1
  /\ UNCHANGED <<inputs, world, started, storeVars, runVars, fn>>

\* The run that starts second is called "B".
StartSecond == pc["A"] # "idle" /\ Start("B")

NextRace ==
  \/ Start("A")
  \/ StartSecond
  \/ Step("A")
  \/ Step("B")
  \/ TickRace

SpecRace == InitRace /\ [][NextRace]_vars

\* ------------------------------------------------- claims on racing runs

\* The record dates of the dataset file at the head of the branch.
DatesOnBranch ==
  IF HasFile(CommitPath)
  THEN {DatesOf(FileOnBranch(CommitPath), Format)[k] :
          k \in 1..Len(DatesOf(FileOnBranch(CommitPath), Format))}
  ELSE {}

\* The record dates of the content a run is publishing.
DatesPublished(r) ==
  {DatesOf(fileContent[r], Format)[k] :
     k \in 1..Len(DatesOf(fileContent[r], Format))}

\* C18 as stated: whenever the updateRef of one of two racing runs is
\* accepted, the dataset it publishes holds every record date of the
\* dataset at the head it replaces.
C18_Original ==
  [][ \A r \in Runs :
        (pc[r] = "commit_updateRef" /\ pc'[r] = "done") =>
          DatesOnBranch \subseteq DatesPublished(r) ]_vars

\* The host is about to reject the updateRef of the run: the branch has
\* moved off the commit the run built its commit on.
UpdateWillBeRejected(r) ==
  /\ pc[r] = "commit_updateRef"
  /\ BranchRef \in DOMAIN refs
  /\ ~IsAncestor(refs[BranchRef], publish[r].newCommitSha)

\* C19: no remote error is retried. When the other run has moved the
\* branch between a run's getRef and its updateRef, the answer to the
\* updateRef ends the run as failed with no further call and no change of
\* a ref; a run that failed this way has issued the calls of the publish
\* once, the updateRef last, and the branch is at a commit of the other
\* run, not at the commit this run created.
C19_NoRetry ==
  /\ [][ \A r \in Runs :
           (UpdateWillBeRejected(r) /\ pc'[r] # pc[r]) =>
             /\ pc'[r] = "failed"
             /\ calls'[r] = calls[r]
             /\ refs[BranchRef].stamp[1] \in Runs \ {r}
             /\ refs' = refs ]_vars
  /\ [](\A r \in Runs :
          failure[r] = "Update is not a fast forward" =>
            /\ pc[r] = "failed"
            /\ LastCalls(r, Len(PublishCalls)) = PublishCalls
            /\ CountCalls(r, "updateRef") = 1
            /\ CountCalls(r, "createCommit") = 1
            /\ CountCalls(r, "getCommit") = 1
            /\ refs[BranchRef] # publish[r].newCommitSha
            /\ refs[BranchRef].stamp[1] \in Runs \ {r})

\* C19 is met where run B published between the getRef and the updateRef
\* of run A, and A's updateRef was rejected.
C19_Witness ==
  /\ failure["A"] = "Update is not a fast forward"
  /\ pc["B"] = "done"
  /\ refs[BranchRef] = publish["B"].newCommitSha
  /\ publish["A"].commitSha = publish["B"].commitSha

\* ------------------------------------------- claims on format independence

\* C20: the upsert is format-agnostic. From the same record sequence and
\* with the same records applied, the csv path (first line that starts
\* with the date) and the json path (first entry with that date) give the
\* same record sequence, after one upsert and after two; the csv content
\* has the header as its first line.
C20_FormatAgnostic ==
  fn.step = 3 =>
    /\ EntriesIn(fn.other.once, OtherFormat(fn.format))
         = EntriesIn(fn.once, fn.format)
    /\ EntriesIn(fn.other.twice, OtherFormat(fn.format))
         = EntriesIn(fn.twice, fn.format)

\* C20 is met where the date of R is held twice by a dataset of three
\* records: both paths replace the first of the two and keep the rest.
C20_Witness ==
  /\ fn.step = 3
  /\ Len(EntriesIn(fn.D, fn.format)) = 3
  /\ EntriesIn(fn.D, fn.format)[1].date # fn.R.date
  /\ EntriesIn(fn.D, fn.format)[2].date = fn.R.date
  /\ EntriesIn(fn.D, fn.format)[3].date = fn.R.date
  /\ EntriesIn(fn.D, fn.format)[2] # fn.R
  /\ EntriesIn(fn.other.once, OtherFormat(fn.format))[2] = fn.R
  /\ EntriesIn(fn.once, fn.format)[2] = fn.R
  /\ Split(IF fn.format = "csv" THEN fn.once ELSE fn.other.once)[1]
       = csvHeaders

\* ------------------------------------------------ claims on what is kept

\* C21 as stated: in csv every content a run publishes has the header line
\* as its first line and only data rows after it, whatever was loaded.
C21_Original ==
  (Format = "csv" /\ pc["A"] \in CommitPlaces \cup {"done"}) =>
    LET lines == Split(fileContent["A"])
    IN /\ Len(lines) >= 1
       /\ lines[1] = csvHeaders
       /\ \A k \in 2..Len(lines) : NotBlank(lines[k]) /\ NotHeader(lines[k])

\* The record dates of the file that was on the branch when the run loaded
\* it: none when there was no file or when it does not decode.
StoredDates(r) ==
  IF loaded[r].hadFile /\ Format \in {"json", "csv"}
     /\ (Format = "json" => WellFormed(loaded[r].stored, "json"))
  THEN {DatesOf(loaded[r].stored, Format)[k] :
          k \in 1..Len(DatesOf(loaded[r].stored, Format))}
  ELSE {}

\* C22 as stated: a successful run never drops history. Every record date
\* of the file that was on the branch when the run loaded it is in the
\* dataset the run has published, whatever the load call answered.
C22_Original ==
  pc["A"] = "done" => StoredDates("A") \subseteq DatesPublished("A")

\* --------------------------------------------------- claims on repeat runs

\* The commit and the dataset the first run published, seen from a second
\* run that has published on top of it.
FirstPublish == refs[BranchRef].parents[1]
FirstContent == FirstPublish.tree[CommitPath]

\* The second run of a day has published on top of the first, and the
\* repository totals it fetched are those the first one wrote.
SecondRunSameDay ==
  /\ pc["A"] = "done"
  /\ started = 2
  /\ ticks = 0
  /\ refs[BranchRef].stamp = <<"A", 2>>
  /\ FirstPublish.stamp = <<"A", 1>>
  /\ LET recs == RecordsOf(FirstContent, Format)
         last == recs[Len(recs)]
     IN last = AsRecord(NewEntry(DateOf(last, Format), stats["A"],
                                 fetch["A"].traffic, fetch["A"].clones),
                        Format)

\* C23 as stated: a second run after a successful first run on the same
\* day, with the same metric values, does no backfill upsert and publishes
\* the dataset the first run published, with the same record count.
C23_Original ==
  SecondRunSameDay =>
    /\ BackfillOffsets("A") = <<>>
    /\ fileContent["A"] = FirstContent
    /\ Len(RecordsOf(fileContent["A"], Format))
         = Len(RecordsOf(FirstContent, Format))

\* ------------------------------------------------ claims on record totals

\* The dataset a run holds: fileContent once yesterday's upsert is made,
\* insightsFile before.
DatasetOf(r) ==
  IF pc[r] \in CommitPlaces \cup {"done"} THEN fileContent[r]
  ELSE insightsFile[r]

\* The three totals of a record, and those the run fetched at its start.
TotalsOf(rec, format) ==
  IF format = "json"
  THEN <<rec.stargazers, rec.commits, rec.contributors>>
  ELSE <<rec[2], rec[3], rec[4]>>
RunTotals(r) ==
  <<stats[r].stargazerCount, stats[r].commitCount, stats[r].contributorsCount>>

\* C24: every record written during a run carries the totals fetched once
\* at the start of that run. For each upsert the run has made (backfill or
\* yesterday's), the dataset holds one record with that date, and it has
\* the run's stargazers, commits and contributors, also where a record
\* with that date and other totals was in the loaded file.
C24_RunTotals ==
  (pc["A"] \notin {"idle", "failed"} /\ Format \in {"json", "csv"}) =>
    \A n \in 1..Len(upserts["A"]) :
      LET recs == RecordsOf(DatasetOf("A"), Format)
          hits == {k \in 1..Len(recs) :
                     DateOf(recs[k], Format) = upserts["A"][n].date}
      IN /\ Cardinality(hits) = 1
         /\ \A k \in hits : TotalsOf(recs[k], Format) = RunTotals("A")

\* C24 is met where the loaded file held a record of the window with other
\* totals: after the backfill and yesterday's upsert all 14 written
\* records carry the totals of this run.
C24_Witness ==
  /\ pc["A"] = "commit_getRef"
  /\ Len(upserts["A"]) = MinEntries
  /\ loaded["A"].outcome = "served"
  /\ WellFormed(loaded["A"].stored, Format)
  /\ \E k \in 1..Len(RecordsOf(loaded["A"].stored, Format)) :
       /\ DateOf(RecordsOf(loaded["A"].stored, Format)[k], Format)
            = upserts["A"][1].date
       /\ TotalsOf(RecordsOf(loaded["A"].stored, Format)[k], Format)
            # RunTotals("A")
  /\ \A k \in 1..Len(RecordsOf(fileContent["A"], Format)) :
       DateOf(RecordsOf(fileContent["A"], Format)[k], Format)
         = upserts["A"][1].date
       => TotalsOf(RecordsOf(fileContent["A"], Format)[k], Format)
            = RunTotals("A")

\* ---------------------------------------------------- claims on termination

\* The final states of a run.
Published(r) == pc[r] = "done"
Failed(r) == pc[r] = "failed"

\* C25: every run terminates when each remote call returns or fails. A run
\* that has started reaches published or failed; the backfill loop makes at
\* most 13 passes and has made exactly 13 when it is left; a published run
\* has its commit at the head of the branch after an accepted updateRef,
\* its last call, and setFailed was not called; a failed run has called
\* setFailed and none of its commits is at the head of the branch.
C25_Terminates ==
  /\ (Active("A") ~> (Published("A") \/ Failed("A")))
  /\ [](/\ Len(BackfillOffsets("A")) <= BackfillStart - BackfillStop
        /\ (pc["A"] \in BeforeUpdate \cup CommitPlaces \cup {"done"}
            /\ BackfillOffsets("A") # <<>>)
             => Len(BackfillOffsets("A")) = BackfillStart - BackfillStop)
  /\ [](Published("A") =>
          /\ failure["A"] = ""
          /\ LastCalls("A", 1) = <<"updateRef">>
          /\ refs[BranchRef] = publish["A"].newCommitSha
          /\ refs[BranchRef].stamp = <<"A", started>>)
  /\ [](Failed("A") =>
          /\ failure["A"] # ""
          /\ BranchRef \in DOMAIN refs =>
               refs[BranchRef].stamp # <<"A", started>>)

\* C25 is met by a run that went through the 13 passes of the backfill and
\* then failed at its updateRef.
C25_Witness ==
  /\ Failed("A")
  /\ Len(BackfillOffsets("A")) = BackfillStart - BackfillStop
  /\ LastCalls("A", 1) = <<"updateRef">>
  /\ failure["A"] = "Request failed"

====
